---- MODULE Spec2Model ----
(***************************************************************************)
(* Model of openhgnn/trainerflow/recommendation.py: the Recommendation     *)
(* trainer flow (train, _full_train_step, _test_step) and the module-level *)
(* metric functions recall_at_k, ndcg_at_k and compute_DCG.                *)
(*                                                                         *)
(* Abstractions, all stated where they are made:                           *)
(*  - the embedding model is an external collaborator; what the flow reads *)
(*    of it is the dense user x item score matrix it yields, so the model  *)
(*    parameters are represented by that score matrix (variable model);    *)
(*  - scores are finite numbers drawn from ScoreVals; np.NINF is NINF, a   *)
(*    value below every score;                                             *)
(*  - floating point quotients are exact fractions [num, den]; the DCG     *)
(*    discount 1 / log2(i + 1) is the fixed-point table Discount;          *)
(*  - self.topk (20 in the source) is an input of the model, drawn from    *)
(*    1 .. NumItem, since the source requires topk <= num_item;            *)
(*  - the split graphs hold disjoint edge sets;                            *)
(*  - EarlyStopping (openhgnn/utils) follows the specification's words.    *)
(*                                                                         *)
(* SpecTopK explores the top-K evaluator of _test_step over all score      *)
(* matrices and training-positive sets, SpecMetric the metric functions    *)
(* over all top-K lists and held-out sets, SpecTrain whole runs of train.  *)
(***************************************************************************)
EXTENDS Integers, Sequences, FiniteSets, TLC

\* ---------------------------------------------------------------- bounds
NumItem == 3
MaxTrainEdges == 2
MaxHeldEdges == 2
MaxEpoch == 4
MaxInterval == 2
MaxPatience == 2

Users == {0, 1}
Items == 0 .. (NumItem - 1)
ScoreVals == {0, 1}
NINF == -1
Cells == Users \X Items

VARIABLES
    pc,               \* position of the flow
    topk,             \* self.topk
    model,            \* self.model, as the score matrix it yields
    positive_graph,   \* user-item edges of self.positive_graph
    val_hg,           \* user-item edges of self.val_hg
    test_hg,          \* user-item edges of self.test_hg
    score_matrix,     \* _test_step's local score_matrix (after masking)
    pred_list,        \* _test_step's local pred_list
    split,            \* _test_step's argument
    metric_dic,       \* _test_step's result
    ndcg,             \* ndcg_at_k's local list, kept per user
    max_epoch,        \* self.max_epoch
    evaluate_interval,\* self.evaluate_interval
    epoch,            \* train's loop variable
    stopper,          \* train's EarlyStopping object
    run               \* what train has done so far (history of the run)

vars == <<pc, topk, model, positive_graph, val_hg, test_hg, score_matrix,
          pred_list, split, metric_dic, ndcg, max_epoch, evaluate_interval,
          epoch, stopper, run>>

\* ------------------------------------------------------------- helpers
Range(s) == {s[j] : j \in DOMAIN s}

\* The permutations of 1 .. n, as sequences.
Perms(n) == {f \in [1 .. n -> 1 .. n] : \A a, b \in 1 .. n : f[a] = f[b] => a = b}

\* f as an explicit table: TLC evaluates [x \in S |-> e] anew at every
\* application, and @@ builds the table once.
Tabulated(f) == f @@ <<>>

PermTable == Tabulated([n \in 0 .. NumItem |-> Perms(n)])

Successors(g, u) == {i \in Items : <<u, i>> \in g}

EdgeSets(limit) == {g \in SUBSET Cells : Cardinality(g) <= limit}

\* ------------------------------------------------- _test_step: top-K
\* Slips of the masking line: the assignment left out, and 0 written in the
\* place of np.NINF.
MaskSkipped(scores, train) == scores

MaskWithZero(scores, train) ==
    [u \in Users |-> [i \in Items |->
        IF <<u, i>> \in train THEN 0 ELSE scores[u][i]]]

\* score_matrix[train_u, train_i] = np.NINF
Mask(scores, train) ==
    [u \in Users |-> [i \in Items |->
        IF <<u, i>> \in train THEN NINF ELSE scores[u][i]]]

\* The orders of the column indices 0 .. NumItem - 1, as sequences.
ItemPerms == {[j \in 1 .. NumItem |-> q[j] - 1] : q \in PermTable[NumItem]}

\* np.argpartition(row, -k): every order of the column indices in which the
\* element at (0-based) position NumItem - k is in its sorted place, nothing
\* before it is larger and nothing after it is smaller. Which of them numpy
\* returns is not specified.
ArgPartition(row, k) ==
    LET piv == NumItem - k + 1
    IN {p \in ItemPerms :
            \A j \in 1 .. NumItem :
                /\ (j < piv => row[p[j]] <= row[p[piv]])
                /\ (j > piv => row[p[j]] >= row[p[piv]])}

\* ind[:, -k:]
LastK(p, k) == [j \in 1 .. k |-> p[NumItem - k + j]]

\* np.argsort(arr): every order of the positions 1 .. Len(arr) that lists the
\* values ascending; ties are in no specified order.
ArgSort(arr) ==
    {q \in PermTable[Len(arr)] :
        \A a \in 1 .. (Len(arr) - 1) : arr[q[a]] <= arr[q[a + 1]]}

\* A slip of the ordering line: the ascending argsort is not reversed.
NotReversed(q) == q

\* [np.arange(num_user), ::-1]: every row reversed along the item axis
ReverseRow(q) == [j \in 1 .. Len(q) |-> q[Len(q) + 1 - j]]

\* Lines 156-160 for one row: the ranked lists numpy may return.
\* ind = argpartition(...)[-k:], arr_ind = row[ind],
\* arr_ind_argsort = argsort(arr_ind)[::-1], pred = ind[arr_ind_argsort]
RankRows(row, k) ==
    UNION {LET arr_ind == [j \in 1 .. k |-> row[ind[j]]]
           IN  {LET arr_ind_argsort == ReverseRow(q)
                IN  [j \in 1 .. k |-> ind[arr_ind_argsort[j]]]
                : q \in ArgSort(arr_ind)}
           : ind \in {LastK(p, k) : p \in ArgPartition(row, k)}}

\* RankRows, tabulated over the rows a masked matrix can hold.
RankTable ==
    Tabulated([row \in [Items -> ScoreVals \cup {NINF}], k \in 1 .. NumItem |->
                  RankRows(row, k)])

\* Lines 156-160: the pred_lists _test_step may build from the masked matrix.
PredLists(masked, k) ==
    LET rows == [u \in Users |-> RankTable[masked[u], k]]
    IN  {pl \in [Users -> UNION {rows[u] : u \in Users}] :
            \A u \in Users : pl[u] \in rows[u]}

\* ------------------------------------------------------------ fractions
RECURSIVE Gcd(_, _)
Gcd(a, b) == IF b = 0 THEN a ELSE Gcd(b, a % b)

\* A metric value: kind is "value" (the fraction num / den, in lowest terms),
\* "none" (not computed), "nan" (numpy's NaN) or "raise" (an exception).
Frac(n, d) ==
    LET g == Gcd(n, d)
    IN  [kind |-> "value", num |-> n \div g, den |-> d \div g]

None == [kind |-> "none", num |-> 0, den |-> 1]
NaN == [kind |-> "nan", num |-> 0, den |-> 1]
ZeroDivisionError == [kind |-> "raise", num |-> 0, den |-> 1]

FracAdd(a, b) == Frac(a.num * b.den + b.num * a.den, a.den * b.den)

FracDivInt(a, n) == Frac(a.num, a.den * n)

\* range(test_graph.num_nodes('user'))
NumUser == Cardinality(Users)

\* ------------------------------------------------------------ recall_at_k
\* pred_list[user][:k]
Prefix(s, k) == SubSeq(s, 1, IF k < Len(s) THEN k ELSE Len(s))

\* The loop of recall_at_k from `user` on; acc = [sum, test_users].
RECURSIVE RecallLoop(_, _, _, _, _)
RecallLoop(user, acc, pl, test_graph, k) ==
    IF user >= NumUser THEN acc
    ELSE LET test_items_set == Successors(test_graph, user)
             pred_items_set == Range(Prefix(pl[user], k))
         IN  IF Cardinality(test_items_set) # 0
             THEN RecallLoop(user + 1,
                      [sum |-> FracAdd(acc.sum,
                                  Frac(Cardinality(test_items_set \cap pred_items_set),
                                       Cardinality(test_items_set))),
                       test_users |-> acc.test_users + 1],
                      pl, test_graph, k)
             ELSE RecallLoop(user + 1, acc, pl, test_graph, k)

\* A plausible slip: a user without held-out items is counted as a zero.
RecallCountsAllUsers(pl, test_graph, k) ==
    LET acc == RecallLoop(0, [sum |-> Frac(0, 1), test_users |-> 0], pl, test_graph, k)
    IN  FracDivInt(acc.sum, NumUser)

\* return sum / test_users: Python raises ZeroDivisionError on test_users = 0
recall_at_k(pl, test_graph, k) ==
    LET acc == RecallLoop(0, [sum |-> Frac(0, 1), test_users |-> 0], pl, test_graph, k)
    IN  IF acc.test_users = 0 THEN ZeroDivisionError
        ELSE FracDivInt(acc.sum, acc.test_users)

\* ------------------------------------------------------------ compute_DCG
\* 1 / log2(i + 1) for i = 1, 2, ..., in units of 1 / 10000
Discount == <<10000, 6309, 5000, 4307, 3869, 3562, 3333, 3155>>

\* 2 ** r - 1 for a binary relevance r
Gain(r) == IF r = 1 THEN 1 ELSE 0

RECURSIVE DcgSum(_, _)
DcgSum(l, i) ==
    IF i > Len(l) THEN 0 ELSE Gain(l[i]) * Discount[i] + DcgSum(l, i + 1)

compute_DCG(l) == IF Len(l) # 0 THEN DcgSum(l, 1) ELSE 0

\* -------------------------------------------------------------- ndcg_at_k
\* The orders in which Python may enumerate the set test_items_set.
Enumerations(S) ==
    {e \in [1 .. Cardinality(S) -> S] : \A a, b \in 1 .. Cardinality(S) : e[a] = e[b] => a = b}

\* [1] * k if GT >= k else [1] * GT + [0] * (k - GT)
IdealHitList(GT, k) == [j \in 1 .. k |-> IF j <= GT THEN 1 ELSE 0]

\* One iteration of ndcg_at_k's loop: the values it may append for `user`
\* (Skip when idcg is zero and nothing is appended).
Skip == [kind |-> "skip", num |-> 0, den |-> 1]

NdcgUser(user, pl, test_graph, k) ==
    LET test_items_set == Successors(test_graph, user)
        pred_items_set == Range(Prefix(pl[user], k))
        idcg == compute_DCG(IdealHitList(Cardinality(test_items_set), k))
    IN  IF idcg = 0 THEN {Skip}
        ELSE {Frac(compute_DCG([j \in 1 .. Cardinality(test_items_set) |->
                                   IF e[j] \in pred_items_set THEN 1 ELSE 0]),
                   idcg)
              : e \in Enumerations(test_items_set)}

\* The lists `ndcg` the loop may build, kept per user.
NdcgLists(pl, test_graph, k) ==
    {l \in [Users -> UNION {NdcgUser(u, pl, test_graph, k) : u \in Users}] :
        \A u \in Users : l[u] \in NdcgUser(u, pl, test_graph, k)}

RECURSIVE NdcgSum(_, _)
NdcgSum(l, user) ==
    IF user >= NumUser THEN Frac(0, 1)
    ELSE IF l[user].kind = "skip" THEN NdcgSum(l, user + 1)
    ELSE FracAdd(l[user], NdcgSum(l, user + 1))

Appended(l) == {u \in Users : l[u].kind = "value"}

\* np.mean(ndcg): NaN (and a warning, no exception) for the empty list
NdcgMean(l) ==
    IF Appended(l) = {} THEN NaN
    ELSE FracDivInt(NdcgSum(l, 0), Cardinality(Appended(l)))

\* ------------------------------------------------------------ _test_step
NoMetrics == [recall |-> None, ndcg |-> None]
NoList == [u \in Users |-> <<>>]
NoNdcg == [u \in Users |-> None]

Zeros == [u \in Users |-> [i \in Items |-> 0]]

\* The model that scores item p above every other item, for every user.
Favourite(p) == [u \in Users |-> [i \in Items |-> IF i = p THEN 1 ELSE 0]]

TestGraph(s) == IF s = "val" THEN val_hg ELSE test_hg

\* for m in self.metric: recall first, then ndcg. An exception of
\* recall_at_k leaves _test_step before ndcg_at_k is called.
MetricOutcomes(pl, test_graph, k) ==
    LET r == recall_at_k(pl, test_graph, k)
    IN  IF r.kind = "raise"
        THEN {[raised |-> TRUE, ndcg |-> NoNdcg, metric_dic |-> [recall |-> r, ndcg |-> None]]}
        ELSE {[raised |-> FALSE, ndcg |-> l,
               metric_dic |-> [recall |-> r, ndcg |-> NdcgMean(l)]]
              : l \in NdcgLists(pl, test_graph, k)}

\* The whole of _test_step(split) on the current model: what it may return.
TestStepOutcomes(s) ==
    UNION {MetricOutcomes(pl, TestGraph(s), topk)
           : pl \in PredLists(Mask(model, positive_graph), topk)}

trainVars == <<max_epoch, evaluate_interval, epoch, stopper, run>>
dataVars == <<topk, model, positive_graph, val_hg, test_hg>>

\* Lines 146-160: scores, mask, partial selection, ordering.
Rank ==
    /\ pc = "test_step"
    /\ score_matrix' = Mask(model, positive_graph)
    /\ pred_list' \in PredLists(score_matrix', topk)
    /\ pc' = "ranked"
    /\ UNCHANGED <<dataVars, split, metric_dic, ndcg, trainVars>>

\* Lines 162-173: the metric loop and the return.
Metrics ==
    /\ pc = "ranked"
    /\ \E o \in MetricOutcomes(pred_list, TestGraph(split), topk) :
          /\ metric_dic' = o.metric_dic
          /\ ndcg' = o.ndcg
          /\ pc' = IF o.raised THEN "test_step_raised" ELSE "test_step_returned"
    /\ UNCHANGED <<dataVars, split, score_matrix, pred_list, trainVars>>

\* recall_at_k(pred_list, test_graph, k) called on its own.
RecallAtK ==
    /\ pc = "ranked"
    /\ metric_dic' = [recall |-> recall_at_k(pred_list, TestGraph(split), topk),
                      ndcg |-> None]
    /\ pc' = "recall_returned"
    /\ UNCHANGED <<dataVars, split, score_matrix, pred_list, ndcg, trainVars>>

\* ndcg_at_k(pred_list, test_graph, k) called on its own.
NdcgAtK ==
    /\ pc = "ranked"
    /\ \E l \in NdcgLists(pred_list, TestGraph(split), topk) :
          /\ ndcg' = l
          /\ metric_dic' = [recall |-> None, ndcg |-> NdcgMean(l)]
    /\ pc' = "ndcg_returned"
    /\ UNCHANGED <<dataVars, split, score_matrix, pred_list, trainVars>>

\* ------------------------------------------------------- EarlyStopping
InitStopper(p) ==
    [patience |-> p, counter |-> 0, best_score |-> None, early_stop |-> FALSE,
     saved |-> FALSE, checkpoint |-> Zeros]

InitRun ==
    [steps |-> 0, evaluated |-> {}, stop |-> "none", restored |-> FALSE,
     test_metric |-> NoMetrics, val_metric |-> NoMetrics, results |-> <<>>]

InitLocals ==
    /\ score_matrix = Zeros
    /\ pred_list = NoList
    /\ metric_dic = NoMetrics
    /\ ndcg = NoNdcg

InitNoTrain ==
    /\ max_epoch = 0
    /\ evaluate_interval = 1
    /\ epoch = 0
    /\ stopper = InitStopper(1)
    /\ run = InitRun

\* ------------------------------------------------- the top-K evaluator
InitTopK ==
    /\ pc = "test_step"
    /\ topk \in 1 .. NumItem
    /\ model \in [Users -> [Items -> ScoreVals]]
    /\ positive_graph \in EdgeSets(MaxTrainEdges)
    /\ val_hg = {}
    /\ test_hg = {}
    /\ split = "test"
    /\ InitLocals
    /\ InitNoTrain

NextTopK == Rank

SpecTopK == InitTopK /\ [][NextTopK]_vars

\* ------------------------------------------------- the metrics engine
\* Inputs of the metric functions: the all-ties model, for which every list
\* of topk distinct items is a pred_list _test_step may build, and the
\* end-to-end scenario (training positive (0, 0), item 1 scored best).
MetricInputs == {<<Zeros, {}>>, <<Favourite(1), {<<0, 0>>}>>}

InitMetric ==
    /\ pc = "test_step"
    /\ topk \in 1 .. NumItem
    /\ \E mi \in MetricInputs : model = mi[1] /\ positive_graph = mi[2]
    /\ val_hg = {}
    /\ test_hg \in {g \in EdgeSets(MaxHeldEdges) : g \cap positive_graph = {}}
    /\ split = "test"
    /\ InitLocals
    /\ InitNoTrain

NextMetric == Rank \/ Metrics \/ RecallAtK \/ NdcgAtK

SpecMetric == InitMetric /\ [][NextMetric]_vars

\* ---------------------------------------------------------------- train
\* EarlyStopping.step_score(score, model) and load_model(model) are code of
\* the repository outside this file; they follow the specification: an
\* improvement of the validation metric saves the model, and `patience`
\* evaluations in a row without one set early_stop.
Less(a, b) == a.num * b.den < b.num * a.den

Improves(stp, score) == stp.best_score.kind = "none" \/ Less(stp.best_score, score)

step_score(stp, score, m) ==
    IF Improves(stp, score)
    THEN [stp EXCEPT !.best_score = score, !.counter = 0,
                     !.saved = TRUE, !.checkpoint = m]
    ELSE [stp EXCEPT !.counter = stp.counter + 1,
                     !.early_stop = (stp.counter + 1 >= stp.patience)]

load_model(stp) == stp.checkpoint

\* The score matrices the optimizer is let to reach in this specification,
\* and the splits: one training positive, at most one held-out edge per split.
TrainModels == {Favourite(p) : p \in Items}

HeldChoices == {{}} \cup {{<<0, i>>} : i \in Items \ {0}}

\* A slip of the interval test: an evaluation after every interval-th epoch.
EvalDueAfterInterval(e, interval) == (e + 1) % interval = 0

\* if epoch % self.evaluate_interval == 0
EvalDue(e, interval) == e % interval = 0

\* The end of one pass of the for loop: the next epoch, or the loop is over.
NextEpoch(r) ==
    IF epoch + 1 < max_epoch
    THEN /\ epoch' = epoch + 1
         /\ pc' = "train_step"
         /\ run' = r
    ELSE /\ epoch' = epoch
         /\ pc' = "stopped"
         /\ run' = [r EXCEPT !.stop = "max_epoch"]

localVars == <<score_matrix, pred_list, ndcg>>
graphVars == <<topk, positive_graph, val_hg, test_hg, split>>
configVars == <<max_epoch, evaluate_interval>>

\* Lines 70-74: preprocess, the stopper, the first pass of the loop.
Preprocess ==
    /\ pc = "preprocess"
    /\ stopper' = InitStopper(stopper.patience)
    /\ epoch' = 0
    /\ IF max_epoch > 0
       THEN pc' = "train_step" /\ run' = run
       ELSE pc' = "stopped" /\ run' = [run EXCEPT !.stop = "max_epoch"]
    /\ UNCHANGED <<model, metric_dic, localVars, graphVars, configVars>>

\* Lines 75-80: _full_train_step (one optimizer step), then the interval test.
\* args.mini_batch_flag is false: _mini_train_step is not defined in this file.
\* The optimizer step may leave any model of TrainModels.
FullTrainStep ==
    /\ pc = "train_step"
    /\ model' \in TrainModels
    /\ IF EvalDue(epoch, evaluate_interval)
       THEN /\ pc' = "periodic_eval"
            /\ run' = [run EXCEPT !.steps = run.steps + 1]
            /\ epoch' = epoch
       ELSE NextEpoch([run EXCEPT !.steps = run.steps + 1])
    /\ UNCHANGED <<stopper, metric_dic, localVars, graphVars, configVars>>

\* Lines 81-88: _test_step(split='val'), stopper.step_score, break.
PeriodicEval ==
    /\ pc = "periodic_eval"
    /\ \E o \in TestStepOutcomes("val") :
          IF o.raised
          THEN /\ pc' = "raised"
               /\ UNCHANGED <<metric_dic, stopper, epoch, run>>
          ELSE /\ metric_dic' = o.metric_dic
               /\ stopper' = step_score(stopper, o.metric_dic.recall, model)
               /\ IF stopper'.early_stop
                  THEN /\ pc' = "stopped"
                       /\ epoch' = epoch
                       /\ run' = [run EXCEPT !.evaluated = @ \cup {epoch},
                                             !.stop = "early"]
                  ELSE NextEpoch([run EXCEPT !.evaluated = @ \cup {epoch}])
    /\ UNCHANGED <<model, localVars, graphVars, configVars>>

\* A slip of the final evaluation: the best checkpoint is not loaded.
LoadModelLeftOut ==
    /\ pc = "stopped"
    /\ run' = [run EXCEPT !.restored = TRUE]
    /\ pc' = "final_test"
    /\ UNCHANGED <<model, stopper, epoch, metric_dic, localVars, graphVars, configVars>>

\* Lines 90-91: stopper.load_model(self.model)
LoadModel ==
    /\ pc = "stopped"
    /\ model' = load_model(stopper)
    /\ run' = [run EXCEPT !.restored = TRUE]
    /\ pc' = "final_test"
    /\ UNCHANGED <<stopper, epoch, metric_dic, localVars, graphVars, configVars>>

\* A slip of _test_step: the mask is written through to the model's scores.
FinalTestMasksModel ==
    /\ pc = "final_test"
    /\ model' = Mask(model, positive_graph)
    /\ \E o \in TestStepOutcomes("test") :
          IF o.raised
          THEN pc' = "raised" /\ run' = run
          ELSE /\ pc' = "final_val"
               /\ run' = [run EXCEPT !.test_metric = o.metric_dic]
    /\ UNCHANGED <<stopper, epoch, metric_dic, localVars, graphVars, configVars>>

\* Line 92: test_metric_dic = self._test_step(split="test")
FinalTest ==
    /\ pc = "final_test"
    /\ \E o \in TestStepOutcomes("test") :
          IF o.raised
          THEN pc' = "raised" /\ run' = run
          ELSE /\ pc' = "final_val"
               /\ run' = [run EXCEPT !.test_metric = o.metric_dic]
    /\ UNCHANGED <<model, stopper, epoch, metric_dic, localVars, graphVars, configVars>>

\* Line 93: val_metric_dic = self._test_step(split="val")
FinalVal ==
    /\ pc = "final_val"
    /\ \E o \in TestStepOutcomes("val") :
          IF o.raised
          THEN pc' = "raised" /\ run' = run
          ELSE /\ pc' = "write"
               /\ run' = [run EXCEPT !.val_metric = o.metric_dic]
    /\ UNCHANGED <<model, stopper, epoch, metric_dic, localVars, graphVars, configVars>>

\* Lines 95-100: json.dump(result, f) and the return.
Report ==
    /\ pc = "write"
    /\ run' = [run EXCEPT !.results =
                  Append(@, [Test_metric |-> run.test_metric,
                             Val_metric |-> run.val_metric])]
    /\ pc' = "report"
    /\ UNCHANGED <<model, stopper, epoch, metric_dic, localVars, graphVars, configVars>>

InitTrain ==
    /\ pc = "preprocess"
    /\ topk \in 1 .. NumItem
    /\ model \in TrainModels
    /\ positive_graph = {<<0, 0>>}
    /\ val_hg \in HeldChoices
    /\ test_hg \in {g \in HeldChoices : g \cap val_hg = {}}
    /\ split = "val"
    /\ InitLocals
    /\ max_epoch \in {1, MaxEpoch}
    /\ evaluate_interval \in 1 .. MaxInterval
    /\ epoch = 0
    /\ \E p \in 1 .. MaxPatience : stopper = InitStopper(p)
    /\ run = InitRun

NextTrain ==
    \/ Preprocess
    \/ FullTrainStep
    \/ PeriodicEval
    \/ LoadModel
    \/ FinalTest
    \/ FinalVal
    \/ Report

SpecTrain == InitTrain /\ [][NextTrain]_vars

\* =============================================================== claims
Eligible(u) == Items \ Successors(positive_graph, u)

ListItems(u) == Range(pred_list[u])

InjectiveList(l) == \A a, b \in 1 .. Len(l) : l[a] = l[b] => a = b

\* C1 as stated: whatever the scores, the training positives and topk, no
\* user's top-K list holds an item the user has a training-positive edge to.
C1_NoTrainingPositiveListed ==
    pc = "ranked" =>
        \A u \in Users : ListItems(u) \cap Successors(positive_graph, u) = {}

\* C1 as amended: a user with at least topk items that are not training
\* positives gets no training-positive item in the top-K list.
C1_NoTrainingPositiveWhenEnoughEligible ==
    pc = "ranked" =>
        \A u \in Users :
            Cardinality(Eligible(u)) >= topk =>
                ListItems(u) \cap Successors(positive_graph, u) = {}

\* A user whose training positive has the best raw score, beside an eligible
\* item of lower score that is listed.
C1_Witness ==
    /\ pc = "ranked"
    /\ \E u \in Users :
          /\ Cardinality(Eligible(u)) >= topk
          /\ \E i \in Successors(positive_graph, u) :
                /\ model[u][i] = 1
                /\ \E j \in ListItems(u) : model[u][j] = 0

\* C2: every user's list holds topk columns with the topk largest masked
\* scores (no column outside the list scores above one inside it), ordered by
\* masked score descending, for every row.
C2_TopKLargestDescending ==
    pc = "ranked" =>
        \A u \in Users :
            /\ Len(pred_list[u]) = topk
            /\ InjectiveList(pred_list[u])
            /\ \A i \in Items \ ListItems(u) : \A j \in ListItems(u) :
                  score_matrix[u][i] <= score_matrix[u][j]
            /\ \A a, b \in 1 .. topk :
                  a < b => score_matrix[u][pred_list[u][a]] >= score_matrix[u][pred_list[u][b]]

\* Both rows hold lists of strictly falling scores, a column is left out of
\* each, and the two rows rank different columns first.
C2_Witness ==
    /\ pc = "ranked"
    /\ topk >= 2
    /\ topk < NumItem
    /\ \A u \in Users :
          score_matrix[u][pred_list[u][1]] > score_matrix[u][pred_list[u][topk]]
    /\ pred_list[0][1] # pred_list[1][1]

\* C7: every list has exactly topk item ids; a user with fewer than topk
\* eligible items gets all of them, and every masked item of the list comes
\* after every eligible item.
C7_ExactlyKMaskedLast ==
    pc = "ranked" =>
        \A u \in Users :
            /\ Len(pred_list[u]) = topk
            /\ InjectiveList(pred_list[u])
            /\ ListItems(u) \subseteq Items
            /\ Cardinality(Eligible(u)) < topk =>
                  /\ Eligible(u) \subseteq ListItems(u)
                  /\ \A a, b \in 1 .. topk :
                        (pred_list[u][a] \notin Eligible(u) /\ pred_list[u][b] \in Eligible(u))
                            => b < a

\* A user with one eligible item and two masked ones, one of them listed.
C7_Witness ==
    /\ pc = "ranked"
    /\ \E u \in Users :
          /\ Cardinality(Eligible(u)) = 1
          /\ Cardinality(Eligible(u)) < topk
          /\ topk < NumItem
          /\ pred_list[u][1] \in Eligible(u)
          /\ pred_list[u][topk] \notin Eligible(u)

HeldOut(u) == Successors(TestGraph(split), u)

Hits(u) == ListItems(u) \cap HeldOut(u)

TestedUsers == {u \in Users : HeldOut(u) # {}}

RECURSIVE HeldProduct(_)
HeldProduct(S) ==
    IF S = {} THEN 1
    ELSE LET u == CHOOSE x \in S : TRUE
         IN  Cardinality(HeldOut(u)) * HeldProduct(S \ {u})

\* The sum over S of |Hits(u)| / |HeldOut(u)|, in units of 1 / d.
RECURSIVE HitShareSum(_, _)
HitShareSum(S, d) ==
    IF S = {} THEN 0
    ELSE LET u == CHOOSE x \in S : TRUE
         IN  Cardinality(Hits(u)) * (d \div Cardinality(HeldOut(u))) + HitShareSum(S \ {u}, d)

Scenario ==
    /\ NumUser = 2
    /\ NumItem = 3
    /\ positive_graph = {<<0, 0>>}
    /\ TestGraph(split) = {<<0, 1>>}
    /\ topk = 2
    /\ \A i \in Eligible(0) \ {1} : model[0][1] > model[0][i]

\* C3: recall_at_k returns the mean, over the users with a held-out item, of
\* |topK(u) with heldout(u)| / |heldout(u)|; a user without one counts
\* neither in the sum nor in the number of users; each share is in [0, 1];
\* and the end-to-end scenario has recall 1.
C3_RecallIsMeanOverTestedUsers ==
    pc = "recall_returned" =>
        LET r == metric_dic.recall
            d == HeldProduct(TestedUsers)
        IN  /\ TestedUsers # {} =>
                  /\ r.kind = "value"
                  /\ r.num * d * Cardinality(TestedUsers) = r.den * HitShareSum(TestedUsers, d)
            /\ \A u \in TestedUsers : Cardinality(Hits(u)) <= Cardinality(HeldOut(u))
            /\ Scenario => (r.kind = "value" /\ r.num = 1 /\ r.den = 1)

C3_Witness ==
    /\ pc = "recall_returned"
    /\ Scenario
    /\ HeldOut(1) = {}
    /\ metric_dic.recall = Frac(1, 1)

HitPositions(u) == {j \in 1 .. topk : pred_list[u][j] \in HeldOut(u)}

\* The held-out items are all listed, at the end of a list that starts with
\* an item that is none of them.
ReverseOptimal(u) ==
    /\ HeldOut(u) # {}
    /\ HeldOut(u) \subseteq ListItems(u)
    /\ Cardinality(HeldOut(u)) < topk
    /\ HitPositions(u) = (topk - Cardinality(HeldOut(u)) + 1) .. topk

\* C4: a user whose hits stand last in the list has an NDCG above 0 and
\* below 1.
C4_ReverseOptimalBelowOne ==
    pc = "ndcg_returned" =>
        \A u \in Users :
            ReverseOptimal(u) =>
                /\ ndcg[u].kind = "value"
                /\ 0 < ndcg[u].num
                /\ ndcg[u].num < ndcg[u].den

\* The list starts with held-out items: all of them, or topk of them.
PerfectlyRanked(u) ==
    /\ HeldOut(u) # {}
    /\ \A j \in 1 .. topk :
          j <= Cardinality(HeldOut(u)) => pred_list[u][j] \in HeldOut(u)

C6_EmptySplitRaises ==
    TestedUsers = {} =>
        /\ pc = "recall_returned" => metric_dic.recall.kind = "raise"
        /\ pc = "ndcg_returned" => metric_dic.ndcg.kind = "raise"
        /\ pc # "test_step_returned"

\* ------------------------------------------------------ claims on train
LoopOver == run.stop # "none"

\* The periodic evaluation of epoch e has run and returned.
EvalFinished(e) == e < epoch \/ (e = epoch /\ LoopOver)

Returned(s) == {o.metric_dic : o \in {x \in TestStepOutcomes(s) : ~x.raised}}

C8_State(due) ==
    /\ run.evaluated = {e \in 0 .. epoch : EvalFinished(e) /\ e \in due}
    /\ stopper.early_stop <=> run.stop = "early"
    /\ stopper.early_stop => stopper.counter >= stopper.patience
    /\ run.stop = "early" => (run.steps = epoch + 1 /\ run.steps <= max_epoch)
    /\ run.stop = "max_epoch" => (run.steps = max_epoch /\ epoch + 1 = max_epoch)
    /\ pc \in {"train_step", "periodic_eval"} => (~LoopOver /\ epoch < max_epoch)

C8_Step ==
    /\ (pc = "periodic_eval" /\ pc' # "raised") =>
          /\ metric_dic' \in Returned("val")
          /\ stopper' = step_score(stopper, metric_dic'.recall, model)
          /\ run'.evaluated = run.evaluated \cup {epoch}
    /\ LoopOver => (run'.steps = run.steps /\ run'.evaluated = run.evaluated
                    /\ stopper' = stopper /\ run'.stop = run.stop)

\* C8 as stated: the evaluated epochs are those that complete an interval of
\* evaluate_interval epochs; the stop is early exactly on the stopper's
\* report, and after max_epoch epochs otherwise.
C8_EvaluatedEpochsCompleteAnInterval ==
    C8_State({e \in 0 .. max_epoch : (e + 1) % evaluate_interval = 0})

\* C8 as amended: the evaluated epochs are those whose 0-based index is a
\* multiple of evaluate_interval (the first epoch, then every
\* evaluate_interval-th); its recall goes to the stopper; the loop is in
\* Stopped(early) exactly when the stopper has reported; once the loop is
\* over there is no training step or periodic evaluation; a loop that ends
\* otherwise ends after max_epoch epochs.
C8_EvaluatedEpochsAreMultiples ==
    /\ [](C8_State({e \in 0 .. max_epoch : e % evaluate_interval = 0}))
    /\ [][C8_Step]_vars

\* A run with an interval of 2 that evaluated its first and third epoch, not
\* its second, and then stopped early.
C8_Witness ==
    /\ evaluate_interval = 2
    /\ run.evaluated = {0, 2}
    /\ run.steps = 3
    /\ run.stop = "early"
    /\ max_epoch > 3

FinalPositions == {"final_test", "final_val", "write", "report"}

C9_State ==
    /\ Len(run.results) <= 1
    /\ Len(run.results) = 1 <=> pc = "report"
    /\ pc \in FinalPositions => run.restored
    /\ run.restored =>
          /\ LoopOver
          /\ run.evaluated # {}
          /\ stopper.saved
          /\ model = stopper.checkpoint
    /\ pc = "stopped" => (stopper.saved /\ run.evaluated # {} /\ ~run.restored)
    /\ pc \in {"final_val", "write", "report"} => run.test_metric \in Returned("test")
    /\ pc \in {"write", "report"} => run.val_metric \in Returned("val")
    /\ pc \in {"final_test"} => run.test_metric = NoMetrics
    /\ pc \in {"final_test", "final_val"} => run.val_metric = NoMetrics
    /\ pc = "report" =>
          /\ run.results[1] = [Test_metric |-> run.test_metric, Val_metric |-> run.val_metric]
          /\ \A m \in {run.test_metric, run.val_metric} :
                m.recall.kind = "value" /\ m.ndcg.kind = "value"

\* C9 as stated: every run that has left the loop restores the best
\* checkpoint, evaluates both splits on it and writes the result once; none
\* ends otherwise.
C9_EveryStoppedRunReports ==
    /\ C9_State
    /\ LoopOver => pc # "raised"

\* C9 as amended: in every run that has left the loop the best checkpoint is
\* restored before the final evaluations, which run on the restored model,
\* test first, then val; the result is written once, after both, unless one
\* of the two raises, and then nothing is written.
C9_StoppedRunRestoresEvaluatesReports ==
    /\ C9_State
    /\ (LoopOver /\ pc = "raised") => (run.restored /\ run.results = <<>>)
    /\ pc = "stopped" => ENABLED LoadModel
    /\ pc = "write" => ENABLED Report

\* A run that stopped early, restored a checkpoint other than the last
\* trained model, and wrote its result.
C9_Witness ==
    /\ pc = "report"
    /\ run.stop = "early"
    /\ Len(run.results) = 1
    /\ run.steps >= 2
    /\ model = stopper.checkpoint

C10_Step ==
    /\ model' # model =>
          \/ pc = "train_step"
          \/ pc = "stopped" /\ model' = stopper.checkpoint
    /\ pc = "train_step" => run'.steps = run.steps + 1
    /\ run'.steps # run.steps => pc = "train_step"
    /\ (stopper'.checkpoint # stopper.checkpoint \/ stopper'.saved # stopper.saved) =>
          /\ pc = "periodic_eval"
          /\ Improves(stopper, metric_dic'.recall)
          /\ stopper'.checkpoint = model

C10_StepsPerEpoch ==
    run.steps = epoch + (IF pc \in {"preprocess", "train_step"} THEN 0 ELSE 1)

\* C10 as stated: no step but the optimizer step changes the model.
C10_OnlyOptimizerChangesModel == [][model' # model => pc = "train_step"]_vars

\* C10 as amended: the model is changed by the optimizer step, once per
\* epoch, and by the restore of the best checkpoint after the loop, and by
\* no evaluation; the checkpoint is changed only by the stopper on an
\* improvement of the validation recall, and is copied only by that restore.
C10_ModelChangedByOptimizerAndRestore ==
    /\ []C10_StepsPerEpoch
    /\ [][C10_Step]_vars

\* After the restore the model is the checkpoint saved in an earlier epoch,
\* not the model of the last optimizer step: a later evaluation brought no
\* improvement.
C10_Witness ==
    /\ pc = "final_test"
    /\ run.restored
    /\ run.steps >= 2
    /\ stopper.counter >= 1
    /\ model = stopper.checkpoint

====
